---- MODULE Spec2Model ----
(***************************************************************************)
(* Model of Allocator (src/src/allocator.hpp): a first-fit allocator that  *)
(* keeps an in-band header (mcb_st) in front of every block and grows the  *)
(* arena with sbrk.                                                        *)
(*                                                                         *)
(* Memory is modelled byte by byte, because a header is 8 bytes wide while *)
(* the block that holds it can be recorded as shorter than that once the   *)
(* 32-bit total size wraps; headers then overlap and one header's write    *)
(* changes another header's bytes.  The layout is the one of the x86-64    *)
(* System V ABI: bool free at offset 0, uint32_t size at offset 4, little  *)
(* endian, sizeof(mcb_st) = 8; unaligned scalar accesses are performed by  *)
(* the hardware.                                                           *)
(*                                                                         *)
(* One action is one whole call of alloc or free by the single caller.     *)
(***************************************************************************)
EXTENDS Integers, Sequences, FiniteSets, TLC

\* ---------------------------------------------------------------- bounds
\* The program break found by the constructor's sbrk(0).
Base == 64
\* Bytes the heap-growth primitive can still grant; beyond them sbrk fails.
HeapRoom == 400
\* Calls of alloc/free made in one behaviour.
MaxCalls == 5
\* Calls made in one behaviour of the long runs with few request sizes.
MaxDeep == 7

\* ------------------------------------------------------ program constants
\* sizeof(mcb_st)
HeaderSize == 8
\* offsetof(mcb_st, size)
SizeOffset == 4
\* A uint32_t is kept as its two 16-bit halves, value = hi * 2^16 + lo
\* (the model checker's integers are narrower than 2^32).
Half == 65536

\* ----------------------------------------------------------- uint32_t
\* The uint32_t of the natural number n < 2^31.
U32(n) == [hi |-> n \div Half, lo |-> n % Half]

\* The uint32_t 2^32 - k, for 0 < k <= 2^16.
U32Top(k) == [hi |-> Half - 1, lo |-> Half - k]

\* u + k in uint32_t, for a natural number k < 2^16: modulo 2^32.
Add32(u, k) ==
  [hi |-> (u.hi + ((u.lo + k) \div Half)) % Half, lo |-> (u.lo + k) % Half]

\* a >= b on uint32_t.
Geq32(a, b) == a.hi > b.hi \/ (a.hi = b.hi /\ a.lo >= b.lo)

\* The value of u as an integer to add to an address.  Pointers are 64
\* bits wide, so address + u never wraps; values of 2^31 - 2^16 and more
\* are all far beyond every address the model reaches and are kept as one.
ToInt(u) == IF u.hi < Half \div 2 - 1 THEN u.hi * Half + u.lo
            ELSE (Half \div 2 - 1) * Half

\* Byte i (0 = least significant) of u, as stored little endian.
ByteOf(u, i) ==
  CASE i = 0 -> u.lo % 256
    [] i = 1 -> u.lo \div 256
    [] i = 2 -> u.hi % 256
    [] i = 3 -> u.hi \div 256

\* Requested sizes the caller passes to alloc(uint32_t): the sizes of the
\* end-to-end scenario, a zero and a one-byte request, and requests whose
\* total size wraps modulo 2^32 to 0 and to 4.
ReqSizes == {U32(0), U32(1), U32(10), U32(16), U32(32), U32(100),
             U32Top(8), U32Top(4)}

VARIABLES
  ndebug,      \* build: TRUE iff NDEBUG is defined (assert compiled out)
  mem,         \* bytes written so far: address -> 0..255
  mem_start_,  \* Allocator::mem_start_
  last_addr_,  \* Allocator::last_addr_
  brk,         \* the program break kept by the heap-growth primitive
  status,      \* "ok" | "crashed" | "hung": what became of the process
  call,        \* the last call as the caller saw it
  live,        \* history: outstanding allocations, oldest first
  created,     \* history: blocks made by the miss path, in creation order
  ncalls,      \* history: number of calls made
  everFreed,   \* history: free has been called at least once
  scen,        \* history: progress through the end-to-end scenario
  thr,         \* per thread: where its alloc call stands, and its locals
  raced,       \* history: two calls read the same thing before either wrote
  sbrks,       \* history: the increments passed to sbrk, in call order
  budget       \* the number of calls the behaviour is followed for

vars == <<ndebug, mem, mem_start_, last_addr_, brk, status, call, live,
          created, ncalls, everFreed, scen, thr, raced, sbrks, budget>>

\* ------------------------------------------------------------ byte access
\* The header at address a can be read: its two fields have been written.
HeaderWritten(m, a) ==
  {a, a + SizeOffset, a + SizeOffset + 1, a + SizeOffset + 2,
   a + SizeOffset + 3} \subseteq DOMAIN m

\* mcb->free read at header address a.
RdFree(m, a) == m[a]

\* mcb->size read at header address a.
RdSize(m, a) ==
  [hi |-> m[a + SizeOffset + 2] + 256 * m[a + SizeOffset + 3],
   lo |-> m[a + SizeOffset] + 256 * m[a + SizeOffset + 1]]

\* mcb->free = f: one byte at a.
WrFree(m, a, f) == [x \in DOMAIN m \cup {a} |-> IF x = a THEN f ELSE m[x]]

\* mcb->size = s: four bytes at a + 4.
WrSize(m, a, s) ==
  [x \in DOMAIN m \cup {a + SizeOffset + i : i \in 0..3} |->
     IF x \in {a + SizeOffset + i : i \in 0..3}
     THEN ByteOf(s, x - a - SizeOffset)
     ELSE m[x]]

\* -------------------------------------------------------------- alloc
\* The guard as if it changed nothing in either build.
GuardedSizeInert(n) == n

\* assert(size =! 0) parses as assert(size = !0): with assertions compiled
\* in it assigns 1 to size and passes; with NDEBUG the expression is not
\* evaluated and size keeps the caller's value.
GuardedSize(n) == IF ndebug THEN n ELSE U32(1)

\* size += sizeof(mcb_st), in uint32_t.
TotalSize(n) == Add32(GuardedSize(n), HeaderSize)

\* The while loop of alloc from cursor curr, looking for size bytes.
\*   hit  : the loop returns the block at 'at'
\*   miss : curr reached last_addr_
\*   spin : the header at 'at' does not qualify and records size 0, so the
\*          cursor no longer moves
\*   lost : the cursor is at 'at', not on a header this program wrote
\*          (it stepped over last_addr_ or into the middle of a block)
RECURSIVE Scan(_, _)
Scan(curr, size) ==
  IF curr = last_addr_ THEN [kind |-> "miss", at |-> curr]
  ELSE IF curr > last_addr_ \/ ~HeaderWritten(mem, curr)
       \/ RdFree(mem, curr) > 1
    THEN [kind |-> "lost", at |-> curr]
  ELSE IF RdFree(mem, curr) = 1 /\ Geq32(RdSize(mem, curr), size)
    THEN [kind |-> "hit", at |-> curr]
  ELSE IF RdSize(mem, curr) = U32(0) THEN [kind |-> "spin", at |-> curr]
  ELSE Scan(curr + ToInt(RdSize(mem, curr)), size)

\* sbrk(incr): grants incr bytes unless the heap cannot be extended.
SbrkOk(incr) == brk + ToInt(incr) <= Base + HeapRoom

\* What the caller saw of a call: the operation and its argument, whether
\* it returned ("ptr", "void") or not ("none"), the pointer returned, the
\* path taken, last_addr_ before the call, and what sbrk answered; with
\* it the call made before this one (was) and the arena's bytes before
\* this call (mem0).
CallRec(op, n, block, outcome, ret, path, grow) ==
  [op |-> op, n |-> n, block |-> block, outcome |-> outcome, ret |-> ret,
   path |-> path, pre |-> last_addr_, grow |-> grow,
   was |-> [op |-> call.op, n |-> call.n, outcome |-> call.outcome,
            ret |-> call.ret],
   mem0 |-> mem]

\* Progress through the calls alloc(16), alloc(32), free(B+H), alloc(10),
\* alloc(100) made on the fresh arena; 6 once the calls differ from them.
ScenAlloc(n) ==
  IF scen = 0 /\ n = U32(16) THEN 1
  ELSE IF scen = 1 /\ n = U32(32) THEN 2
  ELSE IF scen = 3 /\ n = U32(10) THEN 4
  ELSE IF scen = 4 /\ n = U32(100) THEN 5
  ELSE 6

ScenFree(p) == IF scen = 2 /\ p = Base + HeaderSize THEN 3 ELSE 6

\* The process is running and the behaviour is within its bound.
CanCall == status = "ok" /\ ncalls < budget

\* alloc(n) when the scan finds a free block that is large enough.
AllocReuse(n) ==
  LET size == TotalSize(n)
      r == Scan(mem_start_, size)
  IN /\ CanCall
     /\ r.kind = "hit"
     /\ mem' = WrFree(mem, r.at, 0)
     /\ call' = CallRec("alloc", n, 0, "ptr", r.at + HeaderSize, "reuse",
                        "none")
     /\ live' = Append(live, [ptr |-> r.at + HeaderSize, size |-> n])
     /\ ncalls' = ncalls + 1
     /\ scen' = ScenAlloc(n)
     /\ UNCHANGED <<ndebug, mem_start_, last_addr_, brk, status, created,
                    everFreed, sbrks, thr, raced, budget>>

\* alloc(n) when the scan reaches last_addr_: sbrk, then a new block at
\* last_addr_.  The result of sbrk is not looked at.  Writing a header
\* that is not wholly below the program break either faults or succeeds
\* (the break is rarely on a page boundary).
AllocGrow(n) ==
  LET size == TotalSize(n)
      r == Scan(mem_start_, size)
      grow == IF SbrkOk(size) THEN "ok" ELSE "fail"
      newbrk == IF SbrkOk(size) THEN brk + ToInt(size) ELSE brk
      ret == last_addr_
  IN /\ CanCall
     /\ r.kind = "miss"
     /\ brk' = newbrk
     /\ sbrks' = Append(sbrks, ToInt(size))
     /\ last_addr_' = last_addr_ + ToInt(size)
     /\ \/ /\ mem' = WrSize(WrFree(mem, ret, 0), ret, size)
           /\ status' = "ok"
           /\ call' = CallRec("alloc", n, 0, "ptr", ret + HeaderSize,
                              "grow", grow)
           /\ live' = Append(live, [ptr |-> ret + HeaderSize, size |-> n])
           /\ created' = Append(created, [addr |-> ret, size |-> size])
        \/ /\ ret + HeaderSize > newbrk
           /\ status' = "crashed"
           /\ call' = CallRec("alloc", n, 0, "none", 0, "grow", grow)
           /\ UNCHANGED <<mem, live, created>>
     /\ ncalls' = ncalls + 1
     /\ scen' = ScenAlloc(n)
     /\ UNCHANGED <<ndebug, mem_start_, everFreed, thr, raced, budget>>

\* alloc(n) when the scan stops moving on a header of recorded size 0:
\* the loop never exits.
AllocSpin(n) ==
  LET r == Scan(mem_start_, TotalSize(n))
  IN /\ CanCall
     /\ r.kind = "spin"
     /\ status' = "hung"
     /\ call' = CallRec("alloc", n, 0, "none", 0, "scan", "none")
     /\ ncalls' = ncalls + 1
     /\ scen' = ScenAlloc(n)
     /\ UNCHANGED <<ndebug, mem, mem_start_, last_addr_, brk, live,
                    created, everFreed, sbrks, thr, raced, budget>>

\* alloc(n) when the cursor leaves the headers this program wrote: the
\* loop reads bytes the program never initialised.  It faults on unmapped
\* memory, or never exits, or takes what it reads for a free block that is
\* large enough and returns it.
AllocLost(n) ==
  LET r == Scan(mem_start_, TotalSize(n))
  IN /\ CanCall
     /\ r.kind = "lost"
     /\ \/ /\ status' \in {"crashed", "hung"}
           /\ call' = CallRec("alloc", n, 0, "none", 0, "scan", "none")
           /\ UNCHANGED <<mem, live>>
        \/ /\ status' = "ok"
           /\ mem' = WrFree(mem, r.at, 0)
           /\ call' = CallRec("alloc", n, 0, "ptr", r.at + HeaderSize,
                              "scan", "none")
           /\ live' = Append(live, [ptr |-> r.at + HeaderSize, size |-> n])
     /\ ncalls' = ncalls + 1
     /\ scen' = ScenAlloc(n)
     /\ UNCHANGED <<ndebug, mem_start_, last_addr_, brk, created,
                    everFreed, sbrks, thr, raced, budget>>

Alloc(n) == AllocReuse(n) \/ AllocGrow(n) \/ AllocSpin(n) \/ AllocLost(n)

\* --------------------------------------------------------------- free
\* The sequence s without its i-th element.
RemoveAt(s, i) == SubSeq(s, 1, i - 1) \o SubSeq(s, i + 1, Len(s))

\* free(block) for the outstanding allocation live[i]: the caller obeys
\* the precondition (a pointer alloc returned, not yet freed).
Free(i) ==
  LET block == live[i].ptr
      block_mcb == block - HeaderSize
  IN /\ CanCall
     /\ mem' = WrFree(mem, block_mcb, 1)
     /\ call' = CallRec("free", U32(0), block, "void", 0, "free", "none")
     /\ live' = RemoveAt(live, i)
     /\ ncalls' = ncalls + 1
     /\ everFreed' = TRUE
     /\ scen' = ScenFree(block)
     /\ UNCHANGED <<ndebug, mem_start_, last_addr_, brk, status, created,
                    sbrks, thr, raced, budget>>

\* ------------------------------------------------- two concurrent calls
\* Threads that each make one call of alloc with no lock around it.
Threads == {1, 2}

\* Sizes the two threads request.
ConcSizes == {U32(1), U32(16)}

\* A thread that has not called alloc yet.
Idle == [pc |-> "idle", n |-> U32(0), size |-> U32(0), curr |-> 0,
         ret |-> 0]

\* No two calls have raced.
NoRace == [kind |-> "none", at |-> 0]

\* The payload pointer of the block whose header is at hdr, as if the
\* offset of the size field were added instead of the header's size.
PayloadAtSizeField(hdr) == hdr + SizeOffset

\* ret = (uint8_t *)ret + sizeof(mcb_st).
Payload(hdr) == hdr + HeaderSize

\* One test of the while loop and of the if in it, at cursor curr.
\*   miss, hit, spin, lost : as for Scan;  next : the cursor moves on
Probe(curr, size) ==
  IF curr = last_addr_ THEN "miss"
  ELSE IF curr > last_addr_ \/ ~HeaderWritten(mem, curr)
       \/ RdFree(mem, curr) > 1
    THEN "lost"
  ELSE IF RdFree(mem, curr) = 1 /\ Geq32(RdSize(mem, curr), size)
    THEN "hit"
  ELSE IF RdSize(mem, curr) = U32(0) THEN "spin"
  ELSE "next"

\* Thread t may take a step of its call.
Running(t, pc) == status = "ok" /\ thr[t].pc = pc

\* What the steps of a thread leave alone.
ThreadFrame ==
  UNCHANGED <<ndebug, mem_start_, call, ncalls, everFreed, scen, budget>>

\* Lines 97-104: the call starts; size is guarded and made the total size.
TStart(t, n) ==
  /\ Running(t, "idle")
  /\ thr' = [thr EXCEPT ![t] = [pc |-> "scan", n |-> n,
                                size |-> TotalSize(n), curr |-> mem_start_,
                                ret |-> 0]]
  /\ UNCHANGED <<mem, last_addr_, brk, status, live, created, raced,
                 sbrks>>
  /\ ThreadFrame

\* Lines 106-119: one turn of the loop.  The block is tested here and
\* marked used in a later step.  A cursor that is not on a written header
\* reads garbage: the call faults, never exits, or takes it for a hit.
TScan(t) ==
  LET c == thr[t].curr
      k == Probe(c, thr[t].size)
      sameBlock == \E u \in Threads \ {t} :
                     thr[u].pc = "clear" /\ thr[u].curr = c
  IN /\ Running(t, "scan")
     /\ \/ /\ k = "miss"
           /\ thr' = [thr EXCEPT ![t].pc = "sbrk"]
           /\ UNCHANGED <<status, raced>>
        \/ /\ k = "hit"
           /\ thr' = [thr EXCEPT ![t].pc = "clear"]
           /\ raced' = IF sameBlock THEN [kind |-> "reuse", at |-> c]
                        ELSE raced
           /\ UNCHANGED status
        \/ /\ k = "next"
           /\ thr' = [thr EXCEPT
                        ![t].curr = c + ToInt(RdSize(mem, c))]
           /\ UNCHANGED <<status, raced>>
        \/ /\ k = "spin"
           /\ status' = "hung"
           /\ UNCHANGED <<thr, raced>>
        \/ /\ k = "lost"
           /\ \/ status' \in {"crashed", "hung"} /\ UNCHANGED thr
              \/ status' = "ok" /\ thr' = [thr EXCEPT ![t].pc = "clear"]
           /\ UNCHANGED raced
     /\ UNCHANGED <<mem, last_addr_, brk, live, created, sbrks>>
     /\ ThreadFrame

\* Lines 111-116: mcb->free = false; return curr + sizeof(mcb_st).
TClear(t) ==
  LET c == thr[t].curr
  IN /\ Running(t, "clear")
     /\ mem' = WrFree(mem, c, 0)
     /\ thr' = [thr EXCEPT ![t].pc = "done", ![t].ret = Payload(c)]
     /\ live' = Append(live, [ptr |-> Payload(c), size |-> thr[t].n])
     /\ UNCHANGED <<last_addr_, brk, status, created, raced, sbrks>>
     /\ ThreadFrame

\* Line 123: sbrk(size); its result is not looked at.
TSbrk(t) ==
  /\ Running(t, "sbrk")
  /\ brk' = IF SbrkOk(thr[t].size) THEN brk + ToInt(thr[t].size) ELSE brk
  /\ sbrks' = Append(sbrks, ToInt(thr[t].size))
  /\ thr' = [thr EXCEPT ![t].pc = "readlast"]
  /\ UNCHANGED <<mem, last_addr_, status, live, created, raced>>
  /\ ThreadFrame

\* Line 127: ret = last_addr_.
TReadLast(t) ==
  LET sameLast == \E u \in Threads \ {t} :
                    thr[u].pc = "advance" /\ thr[u].ret = last_addr_
  IN /\ Running(t, "readlast")
     /\ thr' = [thr EXCEPT ![t].pc = "advance", ![t].ret = last_addr_]
     /\ raced' = IF sameLast THEN [kind |-> "grow", at |-> last_addr_]
                  ELSE raced
     /\ UNCHANGED <<mem, last_addr_, brk, status, live, created, sbrks>>
     /\ ThreadFrame

\* Line 128: last_addr_ = (uint8_t *)last_addr_ + size.
TAdvance(t) ==
  /\ Running(t, "advance")
  /\ last_addr_' = last_addr_ + ToInt(thr[t].size)
  /\ thr' = [thr EXCEPT ![t].pc = "header"]
  /\ UNCHANGED <<mem, brk, status, live, created, raced, sbrks>>
  /\ ThreadFrame

\* Lines 131-138: the header is written at ret; return ret +
\* sizeof(mcb_st).  As in AllocGrow, the write faults or succeeds when the
\* header is not wholly below the program break.
TWriteHeader(t) ==
  LET hdr == thr[t].ret
  IN /\ Running(t, "header")
     /\ \/ /\ mem' = WrSize(WrFree(mem, hdr, 0), hdr, thr[t].size)
           /\ thr' = [thr EXCEPT ![t].pc = "done", ![t].ret = Payload(hdr)]
           /\ live' = Append(live, [ptr |-> Payload(hdr),
                                     size |-> thr[t].n])
           /\ created' = Append(created,
                                 [addr |-> hdr, size |-> thr[t].size])
           /\ UNCHANGED status
        \/ /\ hdr + HeaderSize > brk
           /\ status' = "crashed"
           /\ UNCHANGED <<mem, thr, live, created>>
     /\ UNCHANGED <<last_addr_, brk, raced, sbrks>>
     /\ ThreadFrame

\* Calls the program made alone before it started the two threads.
MaxSetup == 2

AllIdle == \A t \in Threads : thr[t].pc = "idle"

SetupAlloc(n) == AllIdle /\ ncalls < MaxSetup /\ Alloc(n)

SetupFree(i) == AllIdle /\ ncalls < MaxSetup /\ Free(i)

\* ------------------------------------------------------ specification
\* Allocator(): last_addr_ = sbrk(0); mem_start_ = last_addr_.  sbrk has
\* been called once, with increment 0.
Init ==
  /\ ndebug \in BOOLEAN
  /\ mem = << >>
  /\ mem_start_ = Base
  /\ last_addr_ = Base
  /\ brk = Base
  /\ status = "ok"
  /\ call = [op |-> "new", n |-> U32(0), block |-> 0, outcome |-> "void",
             ret |-> 0, path |-> "new", pre |-> Base, grow |-> "none",
             was |-> [op |-> "none", n |-> U32(0), outcome |-> "void",
                      ret |-> 0],
             mem0 |-> << >>]
  /\ live = << >>
  /\ created = << >>
  /\ ncalls = 0
  /\ everFreed = FALSE
  /\ scen = 0
  /\ thr = [t \in Threads |-> Idle]
  /\ raced = NoRace
  /\ sbrks = <<0>>
  /\ budget = MaxCalls

\* The single caller: whole calls, one after the other.
Next ==
  \/ \E n \in ReqSizes : Alloc(n)
  \/ \E i \in DOMAIN live : Free(i)

Spec == Init /\ [][Next]_vars

\* The single caller again, followed for more calls, with three request
\* sizes: 243 bytes, and 2^32 - 3 and 2^32 - 4, whose total sizes wrap to
\* 5 and 4.
DeepSizes == {U32(243), U32Top(3), U32Top(4)}

InitDeep ==
  /\ ndebug \in BOOLEAN
  /\ mem = << >>
  /\ mem_start_ = Base
  /\ last_addr_ = Base
  /\ brk = Base
  /\ status = "ok"
  /\ call = [op |-> "new", n |-> U32(0), block |-> 0, outcome |-> "void",
             ret |-> 0, path |-> "new", pre |-> Base, grow |-> "none",
             was |-> [op |-> "none", n |-> U32(0), outcome |-> "void",
                      ret |-> 0],
             mem0 |-> << >>]
  /\ live = << >>
  /\ created = << >>
  /\ ncalls = 0
  /\ everFreed = FALSE
  /\ scen = 0
  /\ thr = [t \in Threads |-> Idle]
  /\ raced = NoRace
  /\ sbrks = <<0>>
  /\ budget = MaxDeep

NextDeep ==
  \/ \E n \in DeepSizes : Alloc(n)
  \/ \E i \in DOMAIN live : Free(i)

SpecDeep == InitDeep /\ [][NextDeep]_vars

\* Other code of the process that moves the program break: sbrk(k) by a
\* caller that is not the allocator.  The bytes held above the allocator's
\* frontier by such callers are bounded by MaxLead.
MaxLead == 16
EnvIncrs == {16}

ExternalSbrk(k) ==
  /\ status = "ok"
  /\ brk + k <= Base + HeapRoom
  /\ brk + k - last_addr_ <= MaxLead
  /\ brk' = brk + k
  /\ UNCHANGED <<ndebug, mem, mem_start_, last_addr_, status, call, live,
                 created, ncalls, everFreed, scen, thr, raced, sbrks,
                 budget>>

NextEnv ==
  \/ \E n \in ReqSizes : Alloc(n)
  \/ \E i \in DOMAIN live : Free(i)
  \/ \E k \in EnvIncrs : ExternalSbrk(k)

SpecEnv == Init /\ [][NextEnv]_vars

\* Two threads that call alloc at the same time, after calls made alone.
NextConc ==
  \/ \E n \in ReqSizes : SetupAlloc(n)
  \/ \E i \in DOMAIN live : SetupFree(i)
  \/ \E t \in Threads, n \in ConcSizes : TStart(t, n)
  \/ \E t \in Threads : TScan(t)
  \/ \E t \in Threads : TClear(t)
  \/ \E t \in Threads : TSbrk(t)
  \/ \E t \in Threads : TReadLast(t)
  \/ \E t \in Threads : TAdvance(t)
  \/ \E t \in Threads : TWriteHeader(t)

SpecConc == Init /\ [][NextConc]_vars

TypeOK ==
  /\ ndebug \in BOOLEAN
  /\ status \in {"ok", "crashed", "hung"}
  /\ mem_start_ = Base
  /\ last_addr_ >= mem_start_
  /\ ncalls \in 0..budget
  /\ \A a \in DOMAIN mem : mem[a] \in 0..255

\* ------------------------------------------------- views used by the claims
\* The headers the scan visits from curr: the addresses reached by adding
\* each recorded size, up to last_addr_ or to where the chain breaks.
RECURSIVE Chain(_, _)
Chain(m, curr) ==
  IF curr >= last_addr_ \/ ~HeaderWritten(m, curr) THEN << >>
  ELSE IF RdSize(m, curr) = U32(0) THEN <<curr>>
  ELSE <<curr>> \o Chain(m, curr + ToInt(RdSize(m, curr)))

\* Adding the recorded sizes from curr lands exactly on last_addr_.
RECURSIVE Lands(_, _)
Lands(m, curr) ==
  IF curr = last_addr_ THEN TRUE
  ELSE IF curr > last_addr_ \/ ~HeaderWritten(m, curr) THEN FALSE
  ELSE IF RdSize(m, curr) = U32(0) THEN FALSE
  ELSE Lands(m, curr + ToInt(RdSize(m, curr)))

\* The set of elements of the sequence s.
Range(s) == {s[i] : i \in DOMAIN s}

\* The block at header address a is free and its recorded size is at least
\* n + headerSize, the sum taken in the integers.
Qualifies(m, a, n) ==
  /\ RdFree(m, a) = 1
  /\ ToInt(RdSize(m, a)) >= ToInt(n) + HeaderSize

\* This step is a call of alloc that returned a pointer.
AllocReturned == ncalls' = ncalls + 1 /\ call'.op = "alloc"
                 /\ call'.outcome = "ptr"

\* This step is a call of free.
FreeReturned == ncalls' = ncalls + 1 /\ call'.op = "free"

\* ------------------------------------------------------------------ claims
\* C1: after any calls of alloc and free that returned, with every free
\* given an outstanding pointer, adding the recorded block sizes from
\* mem_start_ lands exactly on last_addr_: no gap, no overshoot.
C1_Partitioned == status = "ok" => Lands(mem, mem_start_)

\* C2: while free has never been called and every requested size was > 0,
\* the pointers alloc returned are
\* strictly increasing in call order and the spans [ptr, ptr + requested
\* size) of any two of them do not overlap.
C2_MonotoneDisjoint ==
  (status = "ok" /\ ~everFreed /\ \A i \in DOMAIN live : live[i].size # U32(0))
  =>
    \A i, j \in DOMAIN live :
      i < j => /\ live[i].ptr < live[j].ptr
               /\ live[i].ptr + ToInt(live[i].size) <= live[j].ptr

\* C3: an alloc(n) made when no block of the arena is free with recorded
\* size >= n + headerSize advances last_addr_ by exactly n + headerSize,
\* leaves at the old last_addr_ a header with size n + headerSize and
\* free = false, and returns the old last_addr_ + headerSize.
C3_GrowthExact ==
  [][(AllocReturned
      /\ \A a \in Range(Chain(mem, mem_start_)) :
           ~Qualifies(mem, a, call'.n))
     => /\ last_addr_' = last_addr_ + ToInt(call'.n) + HeaderSize
        /\ HeaderWritten(mem', last_addr_)
        /\ ToInt(RdSize(mem', last_addr_)) = ToInt(call'.n) + HeaderSize
        /\ RdFree(mem', last_addr_) = 0
        /\ call'.ret = last_addr_ + HeaderSize]_vars

\* C4: whenever alloc(n) reuses a block, that block is on the chain of
\* blocks, is free with recorded size >= n + headerSize, and no block at
\* a lower address is free with recorded size >= n + headerSize.
C4_FirstFit ==
  [][(AllocReturned /\ call'.path = "reuse")
     => LET b == call'.ret - HeaderSize
        IN /\ b \in Range(Chain(mem, mem_start_))
           /\ Qualifies(mem, b, call'.n)
           /\ \A a \in Range(Chain(mem, mem_start_)) :
                a < b => ~Qualifies(mem, a, call'.n)]_vars

\* C5: when the call before was free(p), of a block of recorded size X,
\* and no block below it is free, alloc(Y) returns p if Y + headerSize
\* <= X and does not return p if Y + headerSize > X.  (The case without
\* free blocks below is the one in which first fit can pick the freed
\* block at all.)
C5_ExactSizeClassReuse ==
  [][(/\ call.op = "free"
      /\ AllocReturned
      /\ Lands(mem, mem_start_)
      /\ \A a \in Range(Chain(mem, mem_start_)) :
           a < call.block - HeaderSize => RdFree(mem, a) = 0)
     => LET X == ToInt(RdSize(mem, call.block - HeaderSize))
            Y == ToInt(call'.n)
        IN /\ Y + HeaderSize <= X => call'.ret = call.block
           /\ Y + HeaderSize > X => call'.ret # call.block]_vars

\* C6: when sbrk cannot extend the heap, alloc reports OutOfMemory
\* instead of returning a pointer, leaves last_addr_ where it was and
\* writes no header there.
C6_OutOfMemoryReported ==
  [][(ncalls' = ncalls + 1 /\ call'.op = "alloc" /\ call'.grow = "fail")
     => /\ call'.outcome = "OutOfMemory"
        /\ last_addr_' = last_addr_
        /\ mem' = mem]_vars

\* C7: on a fresh arena with base B and header size H, alloc(16) returns
\* B+H and last_addr_ becomes B+16+H; alloc(32) returns B+16+2H and
\* last_addr_ becomes B+16+32+2H; free(B+H) marks the first block free;
\* alloc(10) returns B+H again and last_addr_ stays; alloc(100) makes its
\* block at last_addr_ and advances last_addr_ by 100+H.
C7_EndToEnd ==
  LET B == Base
      H == HeaderSize
  IN /\ scen = 1 => /\ call.outcome = "ptr" /\ call.ret = B + H
                    /\ last_addr_ = B + 16 + H
     /\ scen = 2 => /\ call.outcome = "ptr" /\ call.ret = B + 16 + 2 * H
                    /\ last_addr_ = B + 16 + 32 + 2 * H
     /\ scen = 3 => /\ RdFree(mem, B) = 1
                    /\ last_addr_ = B + 16 + 32 + 2 * H
     /\ scen = 4 => /\ call.outcome = "ptr" /\ call.ret = B + H
                    /\ last_addr_ = B + 16 + 32 + 2 * H
     /\ scen = 5 => /\ call.outcome = "ptr" /\ call.path = "grow"
                    /\ call.pre = B + 16 + 32 + 2 * H
                    /\ call.ret = call.pre + H
                    /\ last_addr_ = call.pre + 100 + H

\* C8: free(p) for an outstanding p sets the free flag of the block whose
\* header is at p - headerSize and changes nothing else: mem_start_,
\* last_addr_, the chain of blocks, every created block's recorded size
\* and every other block's free flag stay as they were.
C8_FreeFrame ==
  [][FreeReturned
     => LET b == call'.block - HeaderSize
        IN /\ RdFree(mem', b) = 1
           /\ mem_start_' = mem_start_
           /\ last_addr_' = last_addr_
           /\ Chain(mem', mem_start_) = Chain(mem, mem_start_)
           /\ \A k \in DOMAIN created :
                /\ RdSize(mem', created[k].addr)
                     = RdSize(mem, created[k].addr)
                /\ created[k].addr # b
                     => RdFree(mem', created[k].addr)
                          = RdFree(mem, created[k].addr)]_vars

\* The state of the block made by the k-th miss-path alloc.
BlockState(m, k) ==
  IF RdFree(m, created[k].addr) = 0 THEN "Allocated" ELSE "Free"

\* C9: a block changes state only by Nonexistent -> Allocated (made by
\* the miss path of alloc), Allocated -> Free (free of its pointer) and
\* Free -> Allocated (alloc reusing it); alloc never returns a block
\* that is Allocated; a block that exists stays on the chain of blocks.
C9_BlockStateMachine ==
  [][status' = "ok" =>
     /\ \A k \in DOMAIN created' \ DOMAIN created :
          /\ AllocReturned /\ call'.path = "grow"
          /\ call'.ret = created'[k].addr + HeaderSize
          /\ RdFree(mem', created'[k].addr) = 0
     /\ \A k \in DOMAIN created :
          /\ created'[k] = created[k]
          /\ created[k].addr \in Range(Chain(mem', mem_start_))
          /\ (BlockState(mem, k) = "Allocated"
              /\ RdFree(mem', created[k].addr) = 1)
               => /\ FreeReturned
                  /\ call'.block = created[k].addr + HeaderSize
          /\ (BlockState(mem, k) = "Free"
              /\ RdFree(mem', created[k].addr) = 0)
               => /\ AllocReturned /\ call'.path = "reuse"
                  /\ call'.ret = created[k].addr + HeaderSize
          /\ (AllocReturned /\ call'.ret = created[k].addr + HeaderSize)
               => BlockState(mem, k) = "Free"]_vars

\* A sequence s is an initial part of the sequence t.
IsPrefix(s, t) == Len(s) <= Len(t) /\ SubSeq(t, 1, Len(s)) = s

\* C10: no call of alloc or free that returns changes the address or the
\* recorded size of a block that exists: each created block's header
\* records after the call the size it recorded before, and the chain of
\* blocks only gains blocks at its end (none split, merged or removed).
C10_BlocksFixed ==
  [][status' = "ok" =>
     /\ \A k \in DOMAIN created :
          /\ created'[k] = created[k]
          /\ RdSize(mem', created[k].addr) = RdSize(mem, created[k].addr)
     /\ IsPrefix(Chain(mem, mem_start_), Chain(mem', mem_start_))]_vars

ZeroTotal == IF ndebug THEN HeaderSize ELSE 1 + HeaderSize

BothDone == \A t \in Threads : thr[t].pc = "done"

\* C12: with no lock around the calls, alloc's test-then-write is not
\* atomic: when two calls have tested the same block as free before either
\* cleared its flag, or have read the same last_addr_ before either
\* advanced it, and both return, both callers receive the same payload
\* pointer, that of the block they raced for.
C12_RaceSamePointer ==
  (raced.kind # "none" /\ BothDone /\ status = "ok")
  => \A t \in Threads : thr[t].ret = raced.at + HeaderSize

\* C12 witness: there is such an interleaving: both calls returned the
\* pointer of one free block that both had tested before either cleared it.
C12_Witness ==
  /\ raced.kind = "reuse" /\ BothDone /\ status = "ok"
  /\ thr[1].ret = thr[2].ret
  /\ Len(live) >= 2

\* The same through the miss path: both calls read one last_addr_.
C12_WitnessGrow ==
  /\ raced.kind = "grow" /\ BothDone /\ status = "ok"
  /\ thr[1].ret = thr[2].ret

\* This step is a call of alloc, whether or not it returned.
AllocCalled == ncalls' = ncalls + 1 /\ call'.op = "alloc"

\* C13: sbrk is called with increment 0 exactly once, by the constructor;
\* after that it is called exactly once in each alloc that appends a
\* block, with that block's total size as increment; a call of alloc
\* calls it if and only if no block of the arena is free with recorded
\* size >= the total size the call computed; free never calls it.
C13_GrowthCalls ==
  [][/\ sbrks'[1] = 0
     /\ \A i \in 2..Len(sbrks') : sbrks'[i] # 0
     /\ AllocReturned =>
          /\ Len(created') = Len(created) + 1
               <=> Len(sbrks') = Len(sbrks) + 1
          /\ Len(created') = Len(created) + 1
               => sbrks'[Len(sbrks')] = ToInt(created'[Len(created')].size)
          /\ Len(sbrks') \in {Len(sbrks), Len(sbrks) + 1}
     /\ AllocCalled =>
          (Len(sbrks') = Len(sbrks) + 1
             <=> \A a \in Range(Chain(mem, mem_start_)) :
                   ~(RdFree(mem, a) = 1
                     /\ Geq32(RdSize(mem, a), TotalSize(call'.n))))
     /\ FreeReturned => sbrks' = sbrks]_vars

\* C14: when alloc reuses a free block, that block's free flag goes from
\* true to false and nothing else changes: mem_start_, last_addr_, the
\* program break, the chain of blocks, every created block's recorded
\* size and every other block's free flag stay as they were.
C14_ReuseFrame ==
  [][(AllocReturned /\ call'.path = "reuse")
     => LET b == call'.ret - HeaderSize
        IN /\ RdFree(mem, b) = 1 /\ RdFree(mem', b) = 0
           /\ mem_start_' = mem_start_
           /\ last_addr_' = last_addr_
           /\ brk' = brk
           /\ created' = created
           /\ Chain(mem', mem_start_) = Chain(mem, mem_start_)
           /\ \A k \in DOMAIN created :
                /\ RdSize(mem', created[k].addr)
                     = RdSize(mem, created[k].addr)
                /\ created[k].addr # b
                     => RdFree(mem', created[k].addr)
                          = RdFree(mem, created[k].addr)]_vars

\* C15: on every alloc that appends a block, the header is written at the
\* address the sbrk call of that same alloc returned (the break before the
\* growth), so the block lies inside the bytes that call was granted; this
\* also when other code has moved the break.
C15_HeaderAtSbrkResult ==
  [][(AllocReturned /\ call'.path = "grow")
     => /\ call'.grow = "ok"
        /\ call'.ret - HeaderSize = brk
        /\ brk <= last_addr_ /\ last_addr_' <= brk']_vars

\* C16: for every requested size above 0 the total size alloc computes is
\* the requested size plus the header size with no wrap modulo 2^32 (a
\* sum that wraps is below the header size), so the recorded size of every
\* block made for such a request is strictly greater than the header size.
C16_NoWrap ==
  [][/\ (AllocCalled /\ call'.n # U32(0))
          => /\ TotalSize(call'.n) = Add32(call'.n, HeaderSize)
             /\ Geq32(TotalSize(call'.n), U32(HeaderSize + 1))
     /\ (AllocReturned /\ call'.n # U32(0) /\ call'.path = "grow")
          => Geq32(RdSize(mem', call'.ret - HeaderSize),
                   U32(HeaderSize + 1))]_vars

\* C17: after calls that returned, the spans [p, p + n) of the outstanding
\* allocations are pairwise disjoint, each lies inside its own block's
\* payload (n <= recorded size - header size) and inside
\* [mem_start_, last_addr_), and none contains a byte of a block header.
C17_PayloadsSafe ==
  status = "ok" =>
    /\ \A i, j \in DOMAIN live :
         i # j => \/ live[i].ptr + ToInt(live[i].size) <= live[j].ptr
                  \/ live[j].ptr + ToInt(live[j].size) <= live[i].ptr
                  \/ live[i].size = U32(0)
                  \/ live[j].size = U32(0)
    /\ \A i \in DOMAIN live :
         LET p == live[i].ptr
             n == ToInt(live[i].size)
             rec == ToInt(RdSize(mem, p - HeaderSize))
         IN /\ n <= rec - HeaderSize
            /\ mem_start_ <= p /\ p + n <= last_addr_
            /\ \A k \in DOMAIN created :
                 \/ n = 0
                 \/ p + n <= created[k].addr
                 \/ created[k].addr + HeaderSize <= p

\* This step is alloc(m) called right after free(p), itself called right
\* after the alloc(n) that returned p.
AllocAfterFree ==
  /\ AllocCalled
  /\ call.op = "free"
  /\ call.was.op = "alloc" /\ call.was.outcome = "ptr"
  /\ call.block = call.was.ret

\* C18: p = alloc(n); free(p); alloc(m) with m <= n: the second alloc
\* returns p, does not call sbrk, and leaves last_addr_ and every header
\* byte as they were right after the first alloc.
C18_FreeThenAllocSame ==
  [][(AllocAfterFree /\ Geq32(call.was.n, call'.n))
     => /\ call'.outcome = "ptr"
        /\ call'.ret = call.block
        /\ sbrks' = sbrks
        /\ last_addr_' = call.pre
        /\ mem' = call.mem0]_vars

\* C19: every call of alloc terminates, in every state reached by calls of
\* alloc and free: for each size that can be requested, the scan cursor
\* goes up from mem_start_ by the recorded sizes, each above 0, and either
\* returns a block or arrives exactly at last_addr_; no call hangs.
C19_ScanTerminates ==
  /\ status # "hung"
  /\ status = "ok"
       => \A n \in ReqSizes \cup DeepSizes :
            Scan(mem_start_, TotalSize(n)).kind \in {"hit", "miss"}
====
